---- MODULE Spec2Model ----
(***************************************************************************)
(* Task descriptors of pollination/ladybug_comfort/map.py, the registry    *)
(* that holds them, and the life of one task invocation built on them:     *)
(* look the task up, resolve inputs, render the command, execute it,       *)
(* collect the declared outputs.                                           *)
(*                                                                         *)
(* Text is a sequence of atoms.  An atom is one blank " ", one double      *)
(* quote "\"", or a run of other characters.  A command template is a      *)
(* sequence of parts: literal atoms and placeholders {{self.X}}.           *)
(*                                                                         *)
(* The descriptors are those of map.py.  The registry, the renderer, the   *)
(* reading of the rendered text as a command line and the output collector *)
(* belong to the orchestration framework and follow its description.       *)
(***************************************************************************)
EXTENDS Naturals, Sequences, FiniteSets

VARIABLES catalog, found, stage, task, binding, command, errors, exitCode,
          fs, artifacts

vars ==
  <<catalog, found, stage, task, binding, command, errors, exitCode, fs,
    artifacts>>

(* ------------------------------ bounds --------------------------------- *)

\* At most this many file or folder inputs of an invocation are left unbound.
MaxUnboundFiles == 1

\* At most this many string inputs of an invocation are bound explicitly.
MaxBoundStrings == 2

(* --------------------------- text and parts ---------------------------- *)

SP == " "

DQ == "\""

L(s) == [k |-> "lit", s |-> s]

P(x) == [k |-> "ph", s |-> x]

\* One literal word of a template.
W(s) == <<L(s)>>

\* A placeholder written without the double quotes around it.
Q_Unquoted(x) == <<P(x)>>

\* A placeholder between the template's own double quotes: "{{self.x}}".
Q(x) == <<L(DQ), P(x), L(DQ)>>

\* A switch written twice.
Sw_Twice(x) == <<L("--"), P(x), L(SP), L("--"), P(x)>>

\* A switch: --{{self.x}}.
Sw(x) == <<L("--"), P(x)>>

RECURSIVE Join(_)
\* The segments of a template with the blank that separates them.
Join(segs) ==
  IF Len(segs) = 0 THEN <<>>
  ELSE IF Len(segs) = 1 THEN segs[1]
  ELSE segs[1] \o <<L(SP)>> \o Join(Tail(segs))

\* The text of a placeholder as it stands in a template.
PhText(x) == "{{self." \o x \o "}}"

(* ------------------------------ inputs --------------------------------- *)

FileIn(n, p) ==
  [name |-> n, kind |-> "file", path |-> p, hasDefault |-> FALSE,
   default |-> <<>>, enum |-> {}, optional |-> FALSE]

OptFileIn(n, p) ==
  [name |-> n, kind |-> "file", path |-> p, hasDefault |-> FALSE,
   default |-> <<>>, enum |-> {}, optional |-> TRUE]

OptFolderIn(n, p) ==
  [name |-> n, kind |-> "folder", path |-> p, hasDefault |-> FALSE,
   default |-> <<>>, enum |-> {}, optional |-> TRUE]

StrIn(n) ==
  [name |-> n, kind |-> "string", path |-> "", hasDefault |-> FALSE,
   default |-> <<>>, enum |-> {}, optional |-> FALSE]

StrDef(n, d) ==
  [name |-> n, kind |-> "string", path |-> "", hasDefault |-> TRUE,
   default |-> d, enum |-> {}, optional |-> FALSE]

StrEnum(n, e) ==
  [name |-> n, kind |-> "string", path |-> "", hasDefault |-> FALSE,
   default |-> <<>>, enum |-> e, optional |-> FALSE]

StrDefEnum(n, d, e) ==
  [name |-> n, kind |-> "string", path |-> "", hasDefault |-> TRUE,
   default |-> d, enum |-> e, optional |-> FALSE]

\* An output path is the sequence of its components ('output/tcp.csv').
FileOut(n, p) == [name |-> n, kind |-> "file", path |-> p]

FolderOut(n, p) == [name |-> n, kind |-> "folder", path |-> p]

\* '--posture seated --sharp 135 --absorptivity 0.7 --emissivity 0.95'
SolarCalDefault ==
  <<"--posture", SP, "seated", SP, "--sharp", SP, "135", SP,
    "--absorptivity", SP, "0.7", SP, "--emissivity", SP, "0.95">>

(* ---------------------------- descriptors ------------------------------ *)

PmvMap_inputs ==
  << FileIn("result_sql", "result.sql"),
     FileIn("enclosure_info", "enclosure_info.json"),
     FileIn("epw", "weather.epw"),
     FileIn("total_irradiance", "total.ill"),
     FileIn("direct_irradiance", "direct.ill"),
     FileIn("ref_irradiance", "ref.ill"),
     FileIn("sun_up_hours", "sun-up-hours.txt"),
     StrDef("air_speed", <<"0.1">>),
     StrDef("met_rate", <<"1.1">>),
     StrDef("clo_value", <<"0.7">>),
     StrDef("solarcal_par", SolarCalDefault),
     StrDef("comfort_par", <<"--ppd-threshold", SP, "10">>),
     StrDef("run_period", <<>>),
     StrDefEnum("write_set_map", <<"write-op-map">>,
                {<<"write-op-map">>, <<"write-set-map">>}) >>

\* The template ends '--{{self.write_set_map}}  --folder output': two blanks.
run_pmv_map ==
  Join(<< W("ladybug-comfort"), W("map"), W("pmv"), W("result.sql"),
          W("enclosure_info.json"), W("weather.epw"),
          W("--total-irradiance"), W("total.ill"),
          W("--direct-irradiance"), W("direct.ill"),
          W("--ref-irradiance"), W("ref.ill"),
          W("--sun-up-hours"), W("sun-up-hours.txt"),
          W("--air-speed"), Q("air_speed"),
          W("--met-rate"), Q("met_rate"),
          W("--clo-value"), Q("clo_value"),
          W("--solarcal-par"), Q("solarcal_par"),
          W("--comfort-par"), Q("comfort_par"),
          W("--run-period"), Q("run_period"),
          Sw("write_set_map"), <<>>, W("--folder"), W("output") >>)

PmvMap_outputs ==
  << FolderOut("result_folder", <<"output">>),
     FileOut("temperature_map", <<"output", "temperature.csv">>),
     FileOut("condition_map", <<"output", "condition.csv">>),
     FileOut("pmv_map", <<"output", "condition_intensity.csv">>) >>

\* PmvMap with a template that misspells one placeholder.
PmvMap_MisspeltPlaceholder ==
  [name |-> "PmvMap", inputs |-> PmvMap_inputs,
   command |-> [i \in DOMAIN run_pmv_map |->
                  IF run_pmv_map[i] = P("air_speed") THEN P("airspeed")
                  ELSE run_pmv_map[i]],
   outputs |-> PmvMap_outputs]

PmvMap ==
  [name |-> "PmvMap", inputs |-> PmvMap_inputs, command |-> run_pmv_map,
   outputs |-> PmvMap_outputs]

AdaptiveMap_inputs ==
  << FileIn("result_sql", "result.sql"),
     FileIn("enclosure_info", "enclosure_info.json"),
     FileIn("epw", "weather.epw"),
     FileIn("total_irradiance", "total.ill"),
     FileIn("direct_irradiance", "direct.ill"),
     FileIn("ref_irradiance", "ref.ill"),
     FileIn("sun_up_hours", "sun-up-hours.txt"),
     StrDef("air_speed", <<"0.1">>),
     StrDef("solarcal_par", SolarCalDefault),
     StrDef("comfort_par", <<"--standard", SP, "ASHRAE-55">>),
     StrDef("run_period", <<>>) >>

run_adaptive_map ==
  Join(<< W("ladybug-comfort"), W("map"), W("adaptive"), W("result.sql"),
          W("enclosure_info.json"), W("weather.epw"),
          W("--total-irradiance"), W("total.ill"),
          W("--direct-irradiance"), W("direct.ill"),
          W("--ref-irradiance"), W("ref.ill"),
          W("--sun-up-hours"), W("sun-up-hours.txt"),
          W("--air-speed"), Q("air_speed"),
          W("--solarcal-par"), Q("solarcal_par"),
          W("--comfort-par"), Q("comfort_par"),
          W("--run-period"), Q("run_period"),
          W("--folder"), W("output") >>)

AdaptiveMap_outputs ==
  << FolderOut("result_folder", <<"output">>),
     FileOut("temperature_map", <<"output", "temperature.csv">>),
     FileOut("condition_map", <<"output", "condition.csv">>),
     FileOut("deg_from_neutral_map", <<"output", "condition_intensity.csv">>) >>

AdaptiveMap ==
  [name |-> "AdaptiveMap", inputs |-> AdaptiveMap_inputs,
   command |-> run_adaptive_map, outputs |-> AdaptiveMap_outputs]

UtciMap_inputs ==
  << FileIn("result_sql", "result.sql"),
     FileIn("enclosure_info", "enclosure_info.json"),
     FileIn("epw", "weather.epw"),
     FileIn("total_irradiance", "total.ill"),
     FileIn("direct_irradiance", "direct.ill"),
     FileIn("ref_irradiance", "ref.ill"),
     FileIn("sun_up_hours", "sun-up-hours.txt"),
     StrDef("wind_speed", <<"0.5">>),
     StrDef("solarcal_par", SolarCalDefault),
     StrDef("comfort_par", <<"--cold", SP, "9", SP, "--heat", SP, "26">>),
     StrDef("run_period", <<>>) >>

\* The template of UtciMap without the sun-up hours.
run_utci_map_NoSunUpHours ==
  Join(<< W("ladybug-comfort"), W("map"), W("utci"), W("result.sql"),
          W("enclosure_info.json"), W("weather.epw"),
          W("--total-irradiance"), W("total.ill"),
          W("--direct-irradiance"), W("direct.ill"),
          W("--ref-irradiance"), W("ref.ill"),
          W("--wind-speed"), Q("wind_speed"),
          W("--solarcal-par"), Q("solarcal_par"),
          W("--comfort-par"), Q("comfort_par"),
          W("--run-period"), Q("run_period"),
          W("--folder"), W("output") >>)

run_utci_map ==
  Join(<< W("ladybug-comfort"), W("map"), W("utci"), W("result.sql"),
          W("enclosure_info.json"), W("weather.epw"),
          W("--total-irradiance"), W("total.ill"),
          W("--direct-irradiance"), W("direct.ill"),
          W("--ref-irradiance"), W("ref.ill"),
          W("--sun-up-hours"), W("sun-up-hours.txt"),
          W("--wind-speed"), Q("wind_speed"),
          W("--solarcal-par"), Q("solarcal_par"),
          W("--comfort-par"), Q("comfort_par"),
          W("--run-period"), Q("run_period"),
          W("--folder"), W("output") >>)

UtciMap_outputs ==
  << FolderOut("result_folder", <<"output">>),
     FileOut("temperature_map", <<"output", "temperature.csv">>),
     FileOut("condition_map", <<"output", "condition.csv">>),
     FileOut("category_map", <<"output", "condition_intensity.csv">>) >>

UtciMap ==
  [name |-> "UtciMap", inputs |-> UtciMap_inputs, command |-> run_utci_map,
   outputs |-> UtciMap_outputs]

\* The inputs of IrradianceContribMap with aperture_id defaulted to ''.
IrradianceContribMap_inputs_DefaultedId ==
  << FileIn("result_sql", "result.sql"),
     FileIn("direct_specular", "direct_spec.ill"),
     FileIn("indirect_specular", "indirect_spec.ill"),
     FileIn("ref_specular", "ref_spec.ill"),
     FileIn("indirect_diffuse", "indirect_diff.ill"),
     FileIn("ref_diffuse", "ref_diff.ill"),
     FileIn("sun_up_hours", "sun-up-hours.txt"),
     StrDef("aperture_id", <<>>) >>

IrradianceContribMap_inputs ==
  << FileIn("result_sql", "result.sql"),
     FileIn("direct_specular", "direct_spec.ill"),
     FileIn("indirect_specular", "indirect_spec.ill"),
     FileIn("ref_specular", "ref_spec.ill"),
     FileIn("indirect_diffuse", "indirect_diff.ill"),
     FileIn("ref_diffuse", "ref_diff.ill"),
     FileIn("sun_up_hours", "sun-up-hours.txt"),
     StrIn("aperture_id") >>

\* The template with the two diffuse matrices in the other order.
run_irradiance_contrib_Swapped ==
  Join(<< W("ladybug-comfort"), W("map"), W("irradiance-contrib"),
          W("result.sql"), W("direct_spec.ill"), W("indirect_spec.ill"),
          W("ref_spec.ill"), W("ref_diff.ill"), W("indirect_diff.ill"),
          W("sun-up-hours.txt"),
          W("--aperture-id"), Q("aperture_id"),
          W("--folder"), W("output") >>)

run_irradiance_contrib ==
  Join(<< W("ladybug-comfort"), W("map"), W("irradiance-contrib"),
          W("result.sql"), W("direct_spec.ill"), W("indirect_spec.ill"),
          W("ref_spec.ill"), W("indirect_diff.ill"), W("ref_diff.ill"),
          W("sun-up-hours.txt"),
          W("--aperture-id"), Q("aperture_id"),
          W("--folder"), W("output") >>)

IrradianceContribMap_outputs ==
  << FolderOut("result_folder", <<"output">>) >>

IrradianceContribMap ==
  [name |-> "IrradianceContribMap", inputs |-> IrradianceContribMap_inputs,
   command |-> run_irradiance_contrib,
   outputs |-> IrradianceContribMap_outputs]

\* The inputs of ShortwaveMrtMap with indirect_is_total left unconstrained.
ShortwaveMrtMap_inputs_NoEnum ==
  << FileIn("epw", "weather.epw"),
     FileIn("indirect_irradiance", "indirect.ill"),
     FileIn("direct_irradiance", "direct.ill"),
     FileIn("ref_irradiance", "ref.ill"),
     FileIn("sun_up_hours", "sun-up-hours.txt"),
     OptFolderIn("contributions", "dynamic"),
     StrDef("solarcal_par", SolarCalDefault),
     StrDef("run_period", <<>>),
     StrDef("indirect_is_total", <<"is-indirect">>) >>

ShortwaveMrtMap_inputs ==
  << FileIn("epw", "weather.epw"),
     FileIn("indirect_irradiance", "indirect.ill"),
     FileIn("direct_irradiance", "direct.ill"),
     FileIn("ref_irradiance", "ref.ill"),
     FileIn("sun_up_hours", "sun-up-hours.txt"),
     OptFolderIn("contributions", "dynamic"),
     StrDef("solarcal_par", SolarCalDefault),
     StrDef("run_period", <<>>),
     StrDefEnum("indirect_is_total", <<"is-indirect">>,
                {<<"is-indirect">>, <<"indirect-is-total">>}) >>

run_shortwave_map ==
  Join(<< W("ladybug-comfort"), W("map"), W("shortwave-mrt"),
          W("weather.epw"), W("indirect.ill"), W("direct.ill"),
          W("ref.ill"), W("sun-up-hours.txt"),
          W("--contributions"), W("dynamic"),
          W("--solarcal-par"), Q("solarcal_par"),
          W("--run-period"), Q("run_period"),
          Sw("indirect_is_total"),
          W("--output-file"), W("shortwave.csv") >>)

ShortwaveMrtMap_outputs ==
  << FileOut("shortwave_mrt_map", <<"shortwave.csv">>) >>

ShortwaveMrtMap ==
  [name |-> "ShortwaveMrtMap", inputs |-> ShortwaveMrtMap_inputs,
   command |-> run_shortwave_map, outputs |-> ShortwaveMrtMap_outputs]

LongwaveMrtMap_inputs ==
  << FileIn("result_sql", "result.sql"),
     FileIn("view_factors", "view_factors.csv"),
     FileIn("modifiers", "view_factors.mod"),
     FileIn("enclosure_info", "enclosure_info.json"),
     FileIn("epw", "weather.epw"),
     StrDef("run_period", <<>>) >>

\* The template writing to another file than the declared output.
run_longwave_map_OtherFile ==
  Join(<< W("ladybug-comfort"), W("map"), W("longwave-mrt"),
          W("result.sql"), W("view_factors.csv"), W("view_factors.mod"),
          W("enclosure_info.json"), W("weather.epw"),
          W("--run-period"), Q("run_period"),
          W("--output-file"), W("longwave_mrt.csv") >>)

run_longwave_map ==
  Join(<< W("ladybug-comfort"), W("map"), W("longwave-mrt"),
          W("result.sql"), W("view_factors.csv"), W("view_factors.mod"),
          W("enclosure_info.json"), W("weather.epw"),
          W("--run-period"), Q("run_period"),
          W("--output-file"), W("longwave.csv") >>)

LongwaveMrtMap_outputs ==
  << FileOut("longwave_mrt_map", <<"longwave.csv">>) >>

LongwaveMrtMap ==
  [name |-> "LongwaveMrtMap", inputs |-> LongwaveMrtMap_inputs,
   command |-> run_longwave_map, outputs |-> LongwaveMrtMap_outputs]

\* The inputs of AirMap with a default that is no member of the enum.
AirMap_inputs_DefaultOutsideEnum ==
  << FileIn("result_sql", "result.sql"),
     FileIn("enclosure_info", "enclosure_info.json"),
     FileIn("epw", "weather.epw"),
     StrDef("run_period", <<>>),
     StrDefEnum("metric", <<"air_temperature">>,
                {<<"air-temperature">>, <<"relative-humidity">>}) >>

AirMap_inputs ==
  << FileIn("result_sql", "result.sql"),
     FileIn("enclosure_info", "enclosure_info.json"),
     FileIn("epw", "weather.epw"),
     StrDef("run_period", <<>>),
     StrDefEnum("metric", <<"air-temperature">>,
                {<<"air-temperature">>, <<"relative-humidity">>}) >>

run_air_map ==
  Join(<< W("ladybug-comfort"), W("map"), W("air"), W("result.sql"),
          W("enclosure_info.json"), W("weather.epw"),
          W("--run-period"), Q("run_period"),
          Sw("metric"),
          W("--output-file"), W("air.csv") >>)

AirMap_outputs ==
  << FileOut("air_map", <<"air.csv">>) >>

AirMap ==
  [name |-> "AirMap", inputs |-> AirMap_inputs, command |-> run_air_map,
   outputs |-> AirMap_outputs]

\* The inputs of MapResultInfo with comfort_model left unconstrained.
MapResultInfo_inputs_NoEnum ==
  << StrIn("comfort_model"),
     StrDef("run_period", <<>>),
     StrDef("qualifier", <<>>) >>

MapResultInfo_inputs ==
  << StrEnum("comfort_model", {<<"pmv">>, <<"adaptive">>, <<"utci">>}),
     StrDef("run_period", <<>>),
     StrDef("qualifier", <<>>) >>

map_results_information ==
  Join(<< W("ladybug-comfort"), W("map"), W("map-result-info"),
          <<P("comfort_model")>>,
          W("--run-period"), Q("run_period"),
          W("--qualifier"), Q("qualifier"),
          W("--folder"), W("output"),
          W("--log-file"), W("results_info.json") >>)

MapResultInfo_outputs ==
  << FileOut("results_info_file", <<"results_info.json">>),
     FileOut("viz_config_file", <<"config.json">>),
     FileOut("temperature_info", <<"output", "temperature.json">>),
     FileOut("condition_info", <<"output", "condition.json">>),
     FileOut("condition_intensity_info",
             <<"output", "condition_intensity.json">>) >>

MapResultInfo ==
  [name |-> "MapResultInfo", inputs |-> MapResultInfo_inputs,
   command |-> map_results_information, outputs |-> MapResultInfo_outputs]

\* The inputs of Tcp with the schedule not declared optional.
Tcp_inputs_ScheduleRequired ==
  << FileIn("condition_csv", "condition.csv"),
     FileIn("enclosure_info", "enclosure_info.json"),
     FileIn("occ_schedule_json", "occ_schedule.json"),
     FileIn("schedule", "schedule.txt") >>

Tcp_inputs ==
  << FileIn("condition_csv", "condition.csv"),
     FileIn("enclosure_info", "enclosure_info.json"),
     FileIn("occ_schedule_json", "occ_schedule.json"),
     OptFileIn("schedule", "schedule.txt") >>

compute_tcp ==
  Join(<< W("ladybug-comfort"), W("map"), W("tcp"), W("condition.csv"),
          W("enclosure_info.json"),
          W("--schedule"), W("schedule.txt"),
          W("--occ-schedule-json"), W("occ_schedule.json"),
          W("--folder"), W("output") >>)

\* The outputs of Tcp without the cold sensation percent.
Tcp_outputs_NoCsp ==
  << FileOut("tcp", <<"output", "tcp.csv">>),
     FileOut("hsp", <<"output", "hsp.csv">>) >>

Tcp_outputs ==
  << FileOut("tcp", <<"output", "tcp.csv">>),
     FileOut("hsp", <<"output", "hsp.csv">>),
     FileOut("csp", <<"output", "csp.csv">>) >>

\* The class Tcp under the name of another class.
Tcp_NamedAirMap ==
  [name |-> "AirMap", inputs |-> Tcp_inputs, command |-> compute_tcp,
   outputs |-> Tcp_outputs]

Tcp ==
  [name |-> "Tcp", inputs |-> Tcp_inputs, command |-> compute_tcp,
   outputs |-> Tcp_outputs]

\* The nine Function classes of the module, in the order it defines them.
Catalog ==
  << PmvMap, AdaptiveMap, UtciMap, IrradianceContribMap, ShortwaveMrtMap,
     LongwaveMrtMap, AirMap, MapResultInfo, Tcp >>

TaskNames == {Catalog[i].name : i \in 1..Len(Catalog)}

Descriptor(n) == CHOOSE d \in {Catalog[i] : i \in 1..Len(Catalog)} : d.name = n

(* ------------------------------ the registry --------------------------- *)

\* A lookup gives the descriptor by reference: its place in the catalog, 0
\* when it gives none.  Before any lookup there is no result.
NoLookup == [name |-> "", ok |-> FALSE, error |-> "", at |-> 0]

\* The descriptors of catalog cat that are registered under name n.
Matches(cat, n) == {i \in 1..Len(cat) : cat[i].name = n}

\* lookup(n) in catalog cat: a descriptor registered under n, or the failure
\* UnknownOperation when there is none.
LookupResults(cat, n) ==
  IF Matches(cat, n) = {}
  THEN {[name |-> n, ok |-> FALSE, error |-> "UnknownOperation",
         at |-> 0]}
  ELSE {[name |-> n, ok |-> TRUE, error |-> "", at |-> i] :
          i \in Matches(cat, n)}

\* Names that are asked for and are no class of the module: two
\* subcommands, the empty name, the name of the module and a class name cut
\* short.
UnknownNames == {"pmv", "tcp", "", "map", "Pmv"}

(* ------------------------- the command renderer ------------------------ *)

Range(seq) == {seq[i] : i \in 1..Len(seq)}

InputNames(d) == {inp.name : inp \in Range(d.inputs)}

InputOf(d, n) == CHOOSE inp \in Range(d.inputs) : inp.name = n

\* The placeholders a template refers to.
Placeholders(d) == {part.s : part \in {q \in Range(d.command) : q.k = "ph"}}

\* The value an input renders with: the bound value, else the default.
Effective(inp, b) ==
  IF b[inp.name].bound THEN [has |-> TRUE, val |-> b[inp.name].val]
  ELSE IF inp.hasDefault THEN [has |-> TRUE, val |-> inp.default]
  ELSE [has |-> FALSE, val |-> <<>>]

MissingInputs(d, b) ==
  {inp \in Range(d.inputs) : ~inp.optional /\ ~Effective(inp, b).has}

BadEnumInputs(d, b) ==
  {inp \in Range(d.inputs) :
     /\ inp.enum # {}
     /\ Effective(inp, b).has
     /\ Effective(inp, b).val \notin inp.enum}

\* Every constraint of the binding that does not hold is reported.
RenderErrors(d, b) ==
  (IF MissingInputs(d, b) # {} THEN {"MissingRequiredInput"} ELSE {})
  \cup (IF BadEnumInputs(d, b) # {} THEN {"InvalidEnumValue"} ELSE {})
  \cup (IF Placeholders(d) \subseteq InputNames(d) THEN {}
        ELSE {"UnknownInput"})

\* The text one part renders to: a literal as it is, a placeholder as the
\* value of its input, inserted verbatim; a placeholder without a value
\* stays as it is written.
PartText(d, b, part) ==
  IF part.k = "lit" THEN <<part.s>>
  ELSE IF part.s \in InputNames(d) /\ Effective(InputOf(d, part.s), b).has
       THEN Effective(InputOf(d, part.s), b).val
       ELSE <<PhText(part.s)>>

RECURSIVE Substitute(_, _, _, _, _)
\* The parts lo..hi of the template, rendered and put together in order.
Substitute(d, b, parts, lo, hi) ==
  IF lo > hi THEN <<>>
  ELSE IF lo = hi THEN PartText(d, b, parts[lo])
  ELSE LET mid == (lo + hi) \div 2
       IN Substitute(d, b, parts, lo, mid)
          \o Substitute(d, b, parts, mid + 1, hi)

RenderText(d, b) == Substitute(d, b, d.command, 1, Len(d.command))

(* ------------------ the command line as the shell reads it ------------- *)

\* The reader's state before any atom: no word read, none being read.
SplitStart ==
  [words |-> <<>>, inq |-> FALSE, cur |-> "", has |-> FALSE, quoted |-> FALSE]

\* The word being read, if there is one, joins the words read.
Flush(st) ==
  IF st.has THEN Append(st.words, [text |-> st.cur, quoted |-> st.quoted])
  ELSE st.words

\* One atom is read.  A double quote opens or closes a quoted stretch and is
\* no part of the word; a blank outside double quotes ends the word; every
\* other atom, and a blank between double quotes, is part of the word.
SplitStep(st, a) ==
  IF a = DQ
  THEN [st EXCEPT !.inq = ~st.inq, !.has = TRUE, !.quoted = TRUE]
  ELSE IF a = SP /\ ~st.inq
  THEN [words |-> Flush(st), inq |-> FALSE, cur |-> "", has |-> FALSE,
        quoted |-> FALSE]
  ELSE [st EXCEPT !.cur = st.cur \o a, !.has = TRUE]

RECURSIVE SplitRange(_, _, _, _)
\* The atoms lo..hi of the text are read from left to right.
SplitRange(text, lo, hi, st) ==
  IF lo > hi THEN st
  ELSE IF lo = hi THEN SplitStep(st, text[lo])
  ELSE LET mid == (lo + hi) \div 2
           left == SplitRange(text, lo, mid, st)
       IN \* the left half is read to its end before the right half starts
          IF left.inq \in BOOLEAN THEN SplitRange(text, mid + 1, hi, left)
          ELSE left

\* The words of a command line: [text, quoted].
ShellSplit(text) == Flush(SplitRange(text, 1, Len(text), SplitStart))

(* ------------------------- the output collector ------------------------ *)

OutputPaths(d) == {out.path : out \in Range(d.outputs)}

Prefixes(p) == {SubSeq(p, 1, n) : n \in 1..Len(p)}

\* The paths an execution may leave behind: the declared outputs and the
\* directories above them.
TreePaths(d) == UNION {Prefixes(p) : p \in OutputPaths(d)}

\* A file exists only inside an existing directory.
Trees(d) ==
  {F \in SUBSET TreePaths(d) : \A p \in F : Prefixes(p) \subseteq F}

MissingOutputs(d, files) == {out \in Range(d.outputs) : out.path \notin files}

\* The artifacts reported: every declared output, by name, with its path.
Declared(d) == {[name |-> out.name, path |-> out.path] : out \in Range(d.outputs)}

(* ------------------------------ bindings ------------------------------- *)

\* The values a string input is bound to here: a number, the empty text, a
\* text with blanks that reads like a flag, and a text that closes the
\* template's double quote and opens a new one.
StrValues ==
  { <<"0.3">>,
    <<>>,
    <<"--met-rate", SP, "2">>,
    <<"1", DQ, SP, "--met-rate", SP, "2", SP, "--write-set-map", SP, DQ, "1">> }

\* The values an aperture id is bound to: the same, with an identifier for
\* the number.
IdValues == (StrValues \ {<<"0.3">>}) \cup {<<"Room_1_Glz">>}

\* The values a switch input is bound to here: the two or three values of
\* the switch, a value of another switch, and a value of none.
SwitchValues(n) ==
  IF n = "write_set_map"
  THEN {<<"write-op-map">>, <<"write-set-map">>, <<"pmv">>, <<"bogus">>}
  ELSE IF n = "indirect_is_total"
  THEN {<<"is-indirect">>, <<"indirect-is-total">>, <<"pmv">>, <<"bogus">>}
  ELSE IF n = "metric"
  THEN {<<"air-temperature">>, <<"relative-humidity">>, <<"pmv">>, <<"bogus">>}
  ELSE {<<"pmv">>, <<"adaptive">>, <<"utci">>, <<"write-set-map">>, <<"bogus">>}

SwitchNames == {"write_set_map", "indirect_is_total", "metric", "comfort_model"}

ValuesFor(n) ==
  IF n \in SwitchNames THEN SwitchValues(n)
  ELSE IF n = "aperture_id" THEN IdValues
  ELSE StrValues

AllValues ==
  StrValues \cup IdValues \cup UNION {SwitchValues(n) : n \in SwitchNames}

PathInputs(d) == {inp.name : inp \in {x \in Range(d.inputs) : x.kind # "string"}}

StringInputs(d) == {inp.name : inp \in {x \in Range(d.inputs) : x.kind = "string"}}

SmallSubsets(S, k) == {T \in SUBSET S : Cardinality(T) <= k}

\* The binding that leaves the path inputs U unbound and binds exactly the
\* string inputs of v, to the values v gives.
MkBinding(d, U, v) ==
  [n \in InputNames(d) |->
     IF n \in PathInputs(d) THEN [bound |-> n \notin U, val |-> <<>>]
     ELSE IF n \in DOMAIN v THEN [bound |-> TRUE, val |-> v[n]]
     ELSE [bound |-> FALSE, val |-> <<>>]]

NoBinding == [n \in {} |-> [bound |-> FALSE, val |-> <<>>]]

(* ------------------------------ the tasks ------------------------------ *)

Init ==
  /\ catalog = Catalog
  /\ found = NoLookup
  /\ stage = "idle"
  /\ task = "none"
  /\ binding = NoBinding
  /\ command = <<>>
  /\ errors = {}
  /\ exitCode = 0
  /\ fs = {}
  /\ artifacts = {}

\* The descriptor the last lookup gave.
Found == catalog[found.at]

\* The framework asks the registry for an operation by name.
Lookup ==
  /\ stage = "idle"
  /\ \E n \in TaskNames \cup UnknownNames :
       \E r \in LookupResults(catalog, n) : found' = r
  /\ UNCHANGED <<catalog, stage, task, binding, command, errors, exitCode, fs,
                 artifacts>>

\* The framework binds the inputs of one invocation of the task found.
Resolve ==
  /\ stage = "idle"
  /\ found.ok
  /\ LET d == Found
     IN \E U \in SmallSubsets(PathInputs(d), MaxUnboundFiles) :
          \E E \in SmallSubsets(StringInputs(d), MaxBoundStrings) :
            \E v \in {f \in [E -> AllValues] :
                        \A x \in E : f[x] \in ValuesFor(x)} :
              /\ task' = d.name
              /\ binding' = MkBinding(d, U, v)
  /\ stage' = "resolved"
  /\ UNCHANGED <<catalog, found, command, errors, exitCode, fs, artifacts>>

\* The inputs with the values of binding b kept as their defaults.
KeptAsDefaults(inputs, b) ==
  [k \in 1..Len(inputs) |->
     IF inputs[k].kind = "string" /\ b[inputs[k].name].bound
     THEN [inputs[k] EXCEPT !.hasDefault = TRUE,
                            !.default = b[inputs[k].name].val]
     ELSE inputs[k]]

\* The command is rendered and the values bound stay in the descriptor.
Render_KeepsValues ==
  /\ stage = "resolved"
  /\ LET d == Found
         errs == RenderErrors(d, binding)
     IN IF errs = {}
        THEN /\ stage' = "rendered"
             /\ command' = RenderText(d, binding)
             /\ errors' = {}
        ELSE /\ stage' = "failed"
             /\ command' = <<>>
             /\ errors' = errs
  /\ catalog' =
       [i \in 1..Len(catalog) |->
          IF catalog[i].name = task
          THEN [catalog[i] EXCEPT !.inputs = KeptAsDefaults(@, binding)]
          ELSE catalog[i]]
  /\ UNCHANGED <<found, task, binding, exitCode, fs, artifacts>>

\* The command is rendered, or the binding is refused.
Render ==
  /\ stage = "resolved"
  /\ LET d == Found
         errs == RenderErrors(d, binding)
     IN IF errs = {}
        THEN /\ stage' = "rendered"
             /\ command' = RenderText(d, binding)
             /\ errors' = {}
        ELSE /\ stage' = "failed"
             /\ command' = <<>>
             /\ errors' = errs
  /\ UNCHANGED <<catalog, found, task, binding, exitCode, fs, artifacts>>

\* The subprocess runs and its exit code is not looked at.
Execute_IgnoresExitCode ==
  /\ stage = "rendered"
  /\ \E code \in {0, 1} :
       \E files \in Trees(Found) :
         /\ exitCode' = code
         /\ fs' = files
         /\ stage' = "executed"
         /\ errors' = {}
  /\ UNCHANGED <<catalog, found, task, binding, command, artifacts>>

\* The subprocess runs: it exits with some code and leaves some files.
Execute ==
  /\ stage = "rendered"
  /\ \E code \in {0, 1} :
       \E files \in Trees(Found) :
         /\ exitCode' = code
         /\ fs' = files
         /\ IF code = 0
            THEN stage' = "executed" /\ errors' = {}
            ELSE stage' = "failed" /\ errors' = {"NonZeroExit"}
  /\ UNCHANGED <<catalog, found, task, binding, command, artifacts>>

\* Every declared output is looked for and reported; one that is absent
\* fails the task.
Collect ==
  /\ stage = "executed"
  /\ LET d == Found
     IN IF MissingOutputs(d, fs) = {}
        THEN /\ stage' = "collected"
             /\ artifacts' = Declared(d)
             /\ errors' = {}
        ELSE /\ stage' = "failed"
             /\ artifacts' = {}
             /\ errors' = {"MissingOutput"}
  /\ UNCHANGED <<catalog, found, task, binding, command, exitCode, fs>>

\* The invocation is over and its bindings are discarded.
Discard ==
  /\ stage \in {"collected", "failed"}
  /\ stage' = "idle"
  /\ task' = "none"
  /\ binding' = NoBinding
  /\ command' = <<>>
  /\ errors' = {}
  /\ exitCode' = 0
  /\ fs' = {}
  /\ artifacts' = {}
  /\ UNCHANGED <<catalog, found>>

Next == Lookup \/ Resolve \/ Render \/ Execute \/ Collect \/ Discard

Spec == Init /\ [][Next]_vars

(* ------------------------------ properties ----------------------------- *)

Descriptors == Range(Catalog)

\* The command was rendered, or the binding was refused.
RenderDone == stage \notin {"idle", "resolved"}

RenderErrorKinds == {"MissingRequiredInput", "InvalidEnumValue", "UnknownInput"}

\* Every name a placeholder may carry, and the placeholders as written.
PlaceholderNames ==
  UNION {InputNames(d) \cup Placeholders(d) : d \in Descriptors}

PlaceholderTexts == {PhText(x) : x \in PlaceholderNames}

\* C1: each of the nine descriptors refers, in its command template, only
\* to inputs it declares: every {{self.X}} of the template is an input X of
\* the same descriptor.
C1_PlaceholdersAreDeclaredInputs ==
  /\ TaskNames = {"PmvMap", "AdaptiveMap", "UtciMap", "IrradianceContribMap",
                  "ShortwaveMrtMap", "LongwaveMrtMap", "AirMap",
                  "MapResultInfo", "Tcp"}
  /\ \A d \in Descriptors : Placeholders(d) \subseteq InputNames(d)
  /\ task # "none" =>
       \A part \in Range(Descriptor(task).command) :
         part.k = "ph" => part.s \in DOMAIN binding

C1_Witness ==
  /\ stage = "rendered"
  /\ task = "MapResultInfo"
  /\ Placeholders(Descriptor(task)) = {"comfort_model", "run_period", "qualifier"}
  /\ binding["comfort_model"] = [bound |-> TRUE, val |-> <<"utci">>]

\* The required inputs are bound: those neither optional nor defaulted.
RequiredBound ==
  \A inp \in Range(Descriptor(task).inputs) :
    (~inp.optional /\ ~inp.hasDefault) => binding[inp.name].bound

\* Every enum input is omitted with a default, or bound to a member.
EnumsAllowed ==
  \A inp \in Range(Descriptor(task).inputs) :
    inp.enum # {} =>
      IF binding[inp.name].bound THEN binding[inp.name].val \in inp.enum
      ELSE inp.hasDefault

\* C2: with every required input bound and every enum input omitted with
\* its default or bound to a member of its enum, rendering does not fail,
\* and the command it gives holds no placeholder.
C2_RenderSucceeds ==
  (RenderDone /\ RequiredBound /\ EnumsAllowed) =>
    /\ errors \cap RenderErrorKinds = {}
    /\ command # <<>>
    /\ Range(command) \cap PlaceholderTexts = {}

C2_Witness ==
  /\ stage = "rendered"
  /\ task = "ShortwaveMrtMap"
  /\ ~binding["contributions"].bound
  /\ binding["indirect_is_total"] = [bound |-> TRUE, val |-> <<"indirect-is-total">>]
  /\ RequiredBound /\ EnumsAllowed

\* The enums as the descriptors are said to declare them.
StatedEnums ==
  { [task |-> "PmvMap", input |-> "write_set_map",
     enum |-> {<<"write-op-map">>, <<"write-set-map">>}],
    [task |-> "ShortwaveMrtMap", input |-> "indirect_is_total",
     enum |-> {<<"is-indirect">>, <<"indirect-is-total">>}],
    [task |-> "AirMap", input |-> "metric",
     enum |-> {<<"air-temperature">>, <<"relative-humidity">>}],
    [task |-> "MapResultInfo", input |-> "comfort_model",
     enum |-> {<<"pmv">>, <<"adaptive">>, <<"utci">>}] }

\* C3: an enum input bound to a value outside its enum makes rendering
\* fail with InvalidEnumValue, and no command is produced.
C3_InvalidEnumValue ==
  \A e \in StatedEnums :
    (RenderDone /\ task = e.task /\ binding[e.input].bound
       /\ binding[e.input].val \notin e.enum) =>
      /\ stage = "failed"
      /\ "InvalidEnumValue" \in errors
      /\ command = <<>>
      /\ artifacts = {}

C3_Witness ==
  /\ stage = "failed"
  /\ task = "ShortwaveMrtMap"
  /\ binding["indirect_is_total"] = [bound |-> TRUE, val |-> <<"bogus">>]
  /\ errors = {"InvalidEnumValue"}

\* The inputs said to be required: the file inputs that are not optional,
\* aperture_id and comfort_model.
StatedRequired(d) ==
  {inp.name : inp \in {x \in Range(d.inputs) : x.kind = "file" /\ ~x.optional}}
  \cup (InputNames(d) \cap {"aperture_id", "comfort_model"})

\* C4: a required input without a default that is left unbound makes
\* rendering fail with MissingRequiredInput, and no command is produced;
\* leaving out inputs that have a default does not.
C4_MissingRequiredInput ==
  RenderDone =>
    LET d == Descriptor(task)
        unbound == {n \in InputNames(d) : ~binding[n].bound}
    IN /\ (unbound \cap StatedRequired(d) # {}) =>
            /\ stage = "failed"
            /\ "MissingRequiredInput" \in errors
            /\ command = <<>>
            /\ artifacts = {}
       /\ (\A n \in unbound : InputOf(d, n).hasDefault \/ InputOf(d, n).optional) =>
            "MissingRequiredInput" \notin errors

C4_Witness ==
  /\ stage = "failed"
  /\ task = "IrradianceContribMap"
  /\ ~binding["aperture_id"].bound
  /\ \A n \in DOMAIN binding : n # "aperture_id" => binding[n].bound
  /\ errors = {"MissingRequiredInput"}

\* An unquoted word of the command line.
Flag(f) == [text |-> f, quoted |-> FALSE]

RECURSIVE Glue(_)
\* The atoms of a value as one string.
Glue(v) == IF Len(v) = 0 THEN "" ELSE Head(v) \o Glue(Tail(v))

\* The six flags of the PMV command, the inputs they carry and the defaults
\* of those inputs.
PmvFlags ==
  { [flag |-> "--air-speed", input |-> "air_speed", default |-> <<"0.1">>],
    [flag |-> "--met-rate", input |-> "met_rate", default |-> <<"1.1">>],
    [flag |-> "--clo-value", input |-> "clo_value", default |-> <<"0.7">>],
    [flag |-> "--solarcal-par", input |-> "solarcal_par",
     default |-> <<"--posture", SP, "seated", SP, "--sharp", SP, "135", SP,
                   "--absorptivity", SP, "0.7", SP, "--emissivity", SP, "0.95">>],
    [flag |-> "--comfort-par", input |-> "comfort_par",
     default |-> <<"--ppd-threshold", SP, "10">>],
    [flag |-> "--run-period", input |-> "run_period", default |-> <<>>] }

\* The value input p is rendered with: the bound one, else the default.
ValueOf(p) ==
  IF binding[p.input].bound THEN binding[p.input].val ELSE p.default

\* Each of the six flags is one word of the command line exactly once, and
\* the word after it is the value of its input, between double quotes.
EachValueInItsFlagOnce ==
  LET w == ShellSplit(command)
  IN /\ \A p \in PmvFlags :
          /\ Cardinality({i \in 1..Len(w) : w[i] = Flag(p.flag)}) = 1
          /\ Cardinality({i \in 1..(Len(w) - 1) :
                            /\ w[i] = Flag(p.flag)
                            /\ w[i + 1] = [text |-> Glue(ValueOf(p)),
                                           quoted |-> TRUE]}) = 1
     /\ ~binding["write_set_map"].bound =>
          \E i \in 1..Len(w) : w[i] = Flag("--write-op-map")

\* No value bound holds a double quote.
NoQuoteBound ==
  \A n \in DOMAIN binding : DQ \notin Range(binding[n].val)

\* C5 as stated: in the rendered PMV command each of the six values stands
\* inside its own flag exactly once, each of the six flags occurs exactly
\* once, and --write-op-map is there when write_set_map is left out,
\* whatever the values bound.
C5_Original_AnyValue ==
  (stage = "rendered" /\ task = "PmvMap") => EachValueInItsFlagOnce

\* C5 as amended: the same, for values that hold no double quote.
C5_ValuesInsideTheirFlags ==
  (stage = "rendered" /\ task = "PmvMap" /\ NoQuoteBound) =>
    EachValueInItsFlagOnce

C5_Witness ==
  /\ stage = "rendered"
  /\ task = "PmvMap"
  /\ binding["air_speed"] = [bound |-> TRUE, val |-> <<"--met-rate", SP, "2">>]
  /\ ~binding["write_set_map"].bound
  /\ Flag("--write-op-map") \in Range(ShellSplit(command))

\* The PMV command of the state's binding with write_set_map bound to v.
PmvCommandWith(v) ==
  RenderText(Descriptor("PmvMap"),
             [binding EXCEPT !["write_set_map"] = [bound |-> TRUE, val |-> v]])

\* The places where two texts of equal length differ.
Differences(a, b) == {i \in 1..Len(a) : a[i] # b[i]}

\* C6: a PMV command rendered with write-op-map and the command of the same
\* binding with write-set-map differ in one place only, where the word
\* --write-op-map of the one is the word --write-set-map of the other.
C6_SwitchChangesOneToken ==
  (stage = "rendered" /\ task = "PmvMap"
     /\ Effective(InputOf(Descriptor("PmvMap"), "write_set_map"), binding).val
          = <<"write-op-map">>) =>
    LET other == PmvCommandWith(<<"write-set-map">>)
        w == ShellSplit(command)
        v == ShellSplit(other)
    IN /\ Len(other) = Len(command)
       /\ Cardinality(Differences(command, other)) = 1
       /\ \A i \in Differences(command, other) :
            /\ i > 2 /\ i < Len(command)
            /\ command[i] = "write-op-map" /\ other[i] = "write-set-map"
            /\ command[i - 1] = "--" /\ command[i - 2] = SP
            /\ command[i + 1] = SP
       /\ Len(v) = Len(w)
       /\ Cardinality(Differences(w, v)) = 1
       /\ \A i \in Differences(w, v) :
            w[i] = Flag("--write-op-map") /\ v[i] = Flag("--write-set-map")

C6_Witness ==
  /\ stage = "rendered"
  /\ task = "PmvMap"
  /\ binding["run_period"].bound
  /\ DQ \in Range(binding["run_period"].val)
  /\ command # PmvCommandWith(<<"write-set-map">>)

\* The local paths of the file inputs of IrradianceContribMap, as declared.
IrradianceFiles ==
  <<"result.sql", "direct_spec.ill", "indirect_spec.ill", "ref_spec.ill",
    "indirect_diff.ill", "ref_diff.ill", "sun-up-hours.txt">>

\* The text holds the atoms of part from place i on.
HoldsAt(text, i, part) ==
  /\ i + Len(part) - 1 <= Len(text)
  /\ \A k \in 1..Len(part) : text[i + k - 1] = part[k]

\* C7: the irradiance-contribution command holds --aperture-id "v" for the
\* value v bound to aperture_id, and its arguments after 'map
\* irradiance-contrib' are the seven input files in their declaration order.
C7_ApertureIdAndFileOrder ==
  (stage = "rendered" /\ task = "IrradianceContribMap") =>
    LET w == ShellSplit(command)
        d == Descriptor(task)
        files == SelectSeq(d.inputs, LAMBDA inp : inp.kind = "file")
        want == <<"--aperture-id", SP, DQ>> \o binding["aperture_id"].val
                  \o <<DQ>>
    IN /\ binding["aperture_id"].bound
       /\ \E i \in 1..Len(command) : HoldsAt(command, i, want)
       /\ Len(w) >= 10
       /\ <<w[1], w[2], w[3]>> =
            <<Flag("ladybug-comfort"), Flag("map"), Flag("irradiance-contrib")>>
       /\ \A k \in 1..7 : w[3 + k] = Flag(IrradianceFiles[k])
       /\ [k \in 1..Len(files) |-> files[k].path] = IrradianceFiles

C7_Witness ==
  /\ stage = "rendered"
  /\ task = "IrradianceContribMap"
  /\ binding["aperture_id"] = [bound |-> TRUE, val |-> <<"Room_1_Glz">>]
  /\ \E i \in 1..Len(command) :
       HoldsAt(command, i, <<"--aperture-id", SP, DQ, "Room_1_Glz", DQ>>)

\* The outputs were looked for: the command ran and exited with 0.
CollectDone ==
  stage \in {"collected", "failed"} /\ command # <<>> /\ exitCode = 0

TcpArtifacts ==
  {<<"output", "tcp.csv">>, <<"output", "hsp.csv">>, <<"output", "csp.csv">>}

\* C8: the collector reports the declared outputs of the descriptor, all of
\* them and nothing else, and fails the task when one of their paths is
\* absent after the run; for Tcp these are output/tcp.csv, output/hsp.csv
\* and output/csp.csv, and the task fails when one of the three is absent.
C8_CollectsExactlyDeclaredOutputs ==
  LET outs == Range(Descriptor(task).outputs)
  IN /\ stage = "collected" =>
          /\ artifacts = {[name |-> o.name, path |-> o.path] : o \in outs}
          /\ \A a \in artifacts : a.path \in fs
     /\ (CollectDone /\ \E o \in outs : o.path \notin fs) =>
          /\ stage = "failed"
          /\ artifacts = {}
          /\ errors = {"MissingOutput"}
     /\ (task = "Tcp" /\ stage = "collected") =>
          /\ {a.path : a \in artifacts} = TcpArtifacts
          /\ Cardinality(artifacts) = 3
     /\ (task = "Tcp" /\ CollectDone /\ ~(TcpArtifacts \subseteq fs)) =>
          stage = "failed" /\ artifacts = {}

C8_Witness ==
  /\ stage = "failed"
  /\ task = "Tcp"
  /\ exitCode = 0
  /\ errors = {"MissingOutput"}
  /\ fs = {<<"output">>, <<"output", "tcp.csv">>, <<"output", "hsp.csv">>}
  /\ artifacts = {}

RECURSIVE PathText(_)
\* A path as it is written: its components with '/' between them.
PathText(p) ==
  IF Len(p) = 1 THEN p[1] ELSE p[1] \o "/" \o PathText(Tail(p))

\* The command line w asks for path p: p is the argument of --folder,
\* --output-file or --log-file, or lies inside the directory given to
\* --folder.
AskedFor(w, p) ==
  \E i \in 1..(Len(w) - 1) :
    /\ w[i] \in {Flag("--folder"), Flag("--output-file"), Flag("--log-file")}
    /\ \/ w[i + 1].text = PathText(p)
       \/ /\ w[i] = Flag("--folder")
          /\ \E q \in Prefixes(p) \ {p} : w[i + 1].text = PathText(q)

\* C9 as stated: every declared output path of the rendered descriptor is
\* asked for by its command.
C9_Original_EveryOutputAskedFor ==
  stage = "rendered" =>
    \A o \in Range(Descriptor(task).outputs) :
      AskedFor(ShellSplit(command), o.path)

\* C9 as amended: every declared output path is asked for by the command,
\* but for viz_config_file of MapResultInfo: config.json is the argument of
\* no option and lies outside the directory given to --folder.
C9_OutputsAskedForButConfig ==
  stage = "rendered" =>
    LET w == ShellSplit(command)
    IN \A o \in Range(Descriptor(task).outputs) :
         AskedFor(w, o.path)
           <=> ~(task = "MapResultInfo" /\ o.name = "viz_config_file"
                   /\ o.path = <<"config.json">>)

C9_Witness ==
  /\ stage = "rendered"
  /\ task = "MapResultInfo"
  /\ AskedFor(ShellSplit(command), <<"output", "condition_intensity.json">>)
  /\ AskedFor(ShellSplit(command), <<"results_info.json">>)
  /\ ~AskedFor(ShellSplit(command), <<"config.json">>)

\* The two switches of the three commands that have one.
StatedSwitches ==
  { [task |-> "PmvMap", flags |-> {"--write-op-map", "--write-set-map"}],
    [task |-> "ShortwaveMrtMap", flags |-> {"--is-indirect", "--indirect-is-total"}],
    [task |-> "AirMap", flags |-> {"--air-temperature", "--relative-humidity"}] }

\* The text rendered for every enum input is a member of its enum, and it
\* stands in the command where the template has the placeholder.
EnumTextIsMember ==
  \A e \in StatedEnums :
    (stage = "rendered" /\ task = e.task) =>
      LET eff == Effective(InputOf(Descriptor(task), e.input), binding)
          w == ShellSplit(command)
      IN /\ eff.has
         /\ eff.val \in e.enum
         /\ IF task = "MapResultInfo"
            THEN /\ w[4] = Flag(Glue(eff.val))
                 /\ w[4] \in {Flag("pmv"), Flag("adaptive"), Flag("utci")}
            ELSE \E i \in 1..Len(command) :
                   HoldsAt(command, i, <<SP, "--">> \o eff.val \o <<SP>>)

\* Exactly one word of the command line is one of the two switches.
ExactlyOneSwitch ==
  \A sw \in StatedSwitches :
    (stage = "rendered" /\ task = sw.task) =>
      LET w == ShellSplit(command)
      IN Cardinality({i \in 1..Len(w) :
                        w[i] \in {Flag(f) : f \in sw.flags}}) = 1

\* C10 as stated: in every successful render the text of an enum input is
\* a member of its enum, also a default; the PMV, shortwave and air commands
\* hold exactly one of their two switches and the map-result-info command
\* has one of pmv, adaptive, utci as its argument, whatever the values bound.
C10_Original_AnyValue == EnumTextIsMember /\ ExactlyOneSwitch

\* C10 as amended: the same, the count of switches being for bindings whose
\* values hold no double quote.
C10_EnumTextIsMember == EnumTextIsMember /\ (NoQuoteBound => ExactlyOneSwitch)

C10_Witness ==
  /\ stage = "rendered"
  /\ task = "AirMap"
  /\ ~binding["metric"].bound
  /\ binding["run_period"] = [bound |-> TRUE, val |-> <<"--met-rate", SP, "2">>]
  /\ Flag("--air-temperature") \in Range(ShellSplit(command))

\* The nine operations and the subcommand of the tool each stands for.
StatedOperations ==
  { [name |-> "PmvMap", subcommand |-> "pmv"],
    [name |-> "AdaptiveMap", subcommand |-> "adaptive"],
    [name |-> "UtciMap", subcommand |-> "utci"],
    [name |-> "IrradianceContribMap", subcommand |-> "irradiance-contrib"],
    [name |-> "ShortwaveMrtMap", subcommand |-> "shortwave-mrt"],
    [name |-> "LongwaveMrtMap", subcommand |-> "longwave-mrt"],
    [name |-> "AirMap", subcommand |-> "air"],
    [name |-> "MapResultInfo", subcommand |-> "map-result-info"],
    [name |-> "Tcp", subcommand |-> "tcp"] }

\* The descriptor is the one of operation op: it has the name of op and its
\* command is 'ladybug-comfort map' with the subcommand of op.
IsDescriptorOf(d, op) ==
  /\ d.name = op.name
  /\ d \in Range(catalog)
  /\ Len(d.command) >= 5
  /\ <<d.command[1], d.command[3], d.command[5]>>
       = <<L("ladybug-comfort"), L("map"), L(op.subcommand)>>

Refers(d, inp) ==
  IF inp.kind = "string" THEN P(inp.name) \in Range(d.command)
  ELSE \E i \in 1..Len(d.command) :
         /\ d.command[i] = L(inp.path)
         /\ i > 1 /\ d.command[i - 1] = L(SP)
         /\ i < Len(d.command) => d.command[i + 1] = L(SP)

\* The inputs a descriptor declares and its template leaves unused.
UnusedInputs(d) == {inp \in Range(d.inputs) : ~Refers(d, inp)}

\* The local paths given as examples, each the path of an input.
StatedPaths ==
  {"result.sql", "enclosure_info.json", "weather.epw", "sun-up-hours.txt",
   "dynamic", "schedule.txt"}

EveryInputReferenced ==
  /\ \A d \in Descriptors : UnusedInputs(d) = {}
  /\ \A p \in StatedPaths :
       \E d \in Descriptors : \E inp \in Range(d.inputs) :
         inp.kind # "string" /\ inp.path = p /\ Refers(d, inp)

\* C12: every input a descriptor declares is referred to by its command
\* template, a string input X as the placeholder {{self.X}} and a file or
\* folder input as its local path written literally; no descriptor declares
\* an input its template leaves unused.  So the rendered command holds the
\* local path of every file or folder input and the value of every string
\* input.
C12_EveryInputReferenced ==
  /\ EveryInputReferenced
  /\ stage = "rendered" =>
       \A inp \in Range(Found.inputs) :
         /\ Refers(Found, inp)
         /\ IF inp.kind = "string"
            THEN \E i \in 1..(Len(command) + 1) :
                   HoldsAt(command, i, Effective(inp, binding).val)
            ELSE inp.path \in Range(command)

C12_Witness ==
  /\ stage = "rendered"
  /\ task = "UtciMap"
  /\ binding["wind_speed"] = [bound |-> TRUE, val |-> <<"0.3">>]
  /\ "sun-up-hours.txt" \in Range(command)
  /\ \E i \in 1..Len(command) :
       HoldsAt(command, i, <<"--wind-speed", SP, DQ, "0.3", DQ>>)

\* The stage after each stage: the next one, or the failure of the
\* invocation; a lookup is no stage of an invocation.
StageOrder ==
  { <<"idle", "idle">>, <<"idle", "resolved">>,
    <<"resolved", "rendered">>, <<"resolved", "failed">>,
    <<"rendered", "executed">>, <<"rendered", "failed">>,
    <<"executed", "collected">>, <<"executed", "failed">>,
    <<"collected", "idle">>, <<"failed", "idle">> }

\* One step of an invocation.
StageStep ==
  /\ <<stage, stage'>> \in StageOrder
  /\ stage' = "resolved" => task' \in TaskNames /\ command' = <<>>
  /\ stage' = "rendered" => errors' = {} /\ command' # <<>>
  /\ stage' = "executed" =>
       /\ stage = "rendered" /\ errors = {} /\ command # <<>>
       /\ exitCode' = 0
  /\ stage' = "collected" =>
       /\ stage = "executed" /\ exitCode = 0
       /\ artifacts' # {}
       /\ \A a \in artifacts' : a.path \in fs
  /\ stage' = "failed" =>
       /\ artifacts' = {}
       /\ \/ stage = "resolved" /\ errors' # {} /\ errors' \subseteq RenderErrorKinds
             /\ command' = <<>>
          \/ stage = "rendered" /\ errors' = {"NonZeroExit"} /\ exitCode' # 0
          \/ stage = "executed" /\ errors' = {"MissingOutput"}
                /\ MissingOutputs(Descriptor(task), fs) # {}
  /\ stage = "failed" => stage' = "idle" /\ task' = "none" /\ artifacts' = {}
  /\ artifacts' # {} => stage' = "collected"
  /\ (stage # "idle" /\ stage' # "idle") =>
       /\ task' = task /\ binding' = binding
       /\ stage # "resolved" => command' = command
       /\ stage # "rendered" => exitCode' = exitCode /\ fs' = fs

\* C13: an invocation goes through resolve, render, execute and collect in
\* this order, without leaving a stage out or doing one twice: the outputs
\* are collected only after the command exited with 0, the command is
\* executed only after a render without error, and a failure of a stage
\* (refused binding, exit code other than 0, declared output absent) ends
\* the invocation as failed, after which no stage is done again and no
\* output is reported.
C13_StagesInOrder == [][StageStep]_vars

C13_Witness ==
  /\ stage = "failed"
  /\ task = "Tcp"
  /\ errors = {"NonZeroExit"}
  /\ exitCode = 1
  /\ command # <<>>
  /\ MissingOutputs(Descriptor(task), fs) = {}
  /\ artifacts = {}

\* The catalog is the nine descriptors as the module declares them, and a
\* descriptor handed out by lookup is the declared one.
CatalogAsDeclared ==
  /\ catalog = Catalog
  /\ found.ok => Found = Descriptor(found.name)

\* A rendered command is the template of the declared descriptor with the
\* values of the binding, whatever was looked up, rendered or collected
\* before.
CommandOfDeclared ==
  stage = "rendered" => command = RenderText(Descriptor(task), binding)

\* C14: no lookup, render or collection, done or failed, changes the
\* catalog or a field of a descriptor; so a descriptor rendered with the
\* same binding gives the same command every time, whatever was rendered or
\* collected in between.
C14_CatalogNeverChanges ==
  /\ [][catalog' = catalog]_vars
  /\ [](CatalogAsDeclared /\ CommandOfDeclared)

C14_Witness ==
  /\ stage = "failed"
  /\ task = "PmvMap"
  /\ binding["air_speed"] = [bound |-> TRUE, val |-> <<"0.3">>]
  /\ errors = {"MissingOutput"}
  /\ command = RenderText(Descriptor(task), binding)
  /\ catalog = Catalog

\* The two optional inputs, and the option and local path that the command
\* of their task names them by.
StatedOptional ==
  { [task |-> "ShortwaveMrtMap", input |-> "contributions",
     flag |-> "--contributions", path |-> "dynamic"],
    [task |-> "Tcp", input |-> "schedule",
     flag |-> "--schedule", path |-> "schedule.txt"] }

\* The state's binding with input n bound where it is unbound, and unbound
\* where it is bound.
BoundOtherwise(n) == [binding EXCEPT ![n].bound = ~@]

\* The command line w holds the option and, as the word after it, the path.
HasOption(w, flag, path) ==
  \E i \in 1..(Len(w) - 1) : w[i] = Flag(flag) /\ w[i + 1] = Flag(path)

\* C15: the rendered command is the same whether an optional input is
\* bound or not: the shortwave MRT command holds '--contributions dynamic'
\* and the TCP command '--schedule schedule.txt' with contributions or
\* schedule bound and with it left out, and leaving it out never makes the
\* render fail with MissingRequiredInput.
C15_OptionalInputLeavesCommand ==
  \A o \in StatedOptional :
    (RenderDone /\ task = o.task) =>
      LET d == Descriptor(task)
          other == BoundOtherwise(o.input)
      IN /\ InputOf(d, o.input).optional
         /\ RenderErrors(d, other) = RenderErrors(d, binding)
         /\ command # <<>> =>
              /\ command = RenderText(d, other)
              /\ HasOption(ShellSplit(command), o.flag, o.path)
         /\ "MissingRequiredInput" \in errors =>
              \E n \in InputNames(d) \ {o.input} :
                ~binding[n].bound /\ ~InputOf(d, n).hasDefault

C15_Witness ==
  /\ stage = "rendered"
  /\ task = "Tcp"
  /\ ~binding["schedule"].bound
  /\ \A n \in DOMAIN binding : n # "schedule" => binding[n].bound
  /\ HasOption(ShellSplit(command), "--schedule", "schedule.txt")

====
